---- MODULE Spec2Model ----
(***************************************************************************)
(* Model of bindings/nodejs/lib/MessageHandler.ts: the MessageHandler      *)
(* adapter that serializes requests with JSON.stringify and forwards them  *)
(* to the native bindings (messageHandlerNew, sendMessageAsync, listen).   *)
(*                                                                         *)
(* JavaScript values are records tagged by t: "undef", "null", "bool" (b),  *)
(* "num" (n), "str" (s, a sequence of characters), "arr" (a, a sequence of *)
(* values), "obj" (o, a sequence of <<key, value>> pairs in property       *)
(* order, keys being sequences of characters).                             *)
(* Texts are sequences of one-character strings, so that quoting and       *)
(* escaping are computed and not assumed.                                  *)
(***************************************************************************)
EXTENDS Integers, Sequences, FiniteSets, TLC

(***************************************************************************)
(* JavaScript values                                                       *)
(***************************************************************************)
Undefined == [t |-> "undef"]
Null == [t |-> "null"]
Bool(b) == [t |-> "bool", b |-> b]
Num(n) == [t |-> "num", n |-> n]
Str(s) == [t |-> "str", s |-> s]
Arr(a) == [t |-> "arr", a |-> a]
Obj(o) == [t |-> "obj", o |-> o]

DQ == "\""
BS == "\\"
NL == "\n"

Digits == <<"0", "1", "2", "3", "4", "5", "6", "7", "8", "9">>

RECURSIVE NumberToString(_)
\* Number::toString of a non-negative integer: its decimal digits
NumberToString(n) ==
    IF n < 10 THEN <<Digits[n + 1]>>
    ELSE NumberToString(n \div 10) \o <<Digits[(n % 10) + 1]>>

\* QuoteJSONString escapes the quotation mark, the backslash and the line feed
EscapeChar(c) ==
    IF c = DQ THEN <<BS, DQ>>
    ELSE IF c = BS THEN <<BS, BS>>
    ELSE IF c = NL THEN <<BS, "n">>
    ELSE <<c>>

RECURSIVE EscapeChars(_)
EscapeChars(s) ==
    IF s = <<>> THEN <<>> ELSE EscapeChar(Head(s)) \o EscapeChars(Tail(s))

QuoteJSONString(s) == <<DQ>> \o EscapeChars(s) \o <<DQ>>

RECURSIVE SerializeJSONProperty(_)
RECURSIVE SerializeJSONArray(_, _)
RECURSIVE SerializeJSONObject(_, _)

\* The text of a value, or Undefined for a value JSON has no text for
SerializeJSONProperty(val) ==
    CASE val.t = "null" -> Str(<<"n", "u", "l", "l">>)
      [] val.t = "bool" -> Str(IF val.b THEN <<"t", "r", "u", "e">>
                                         ELSE <<"f", "a", "l", "s", "e">>)
      [] val.t = "num" -> Str(NumberToString(val.n))
      [] val.t = "str" -> Str(QuoteJSONString(val.s))
      [] val.t = "arr" -> Str(<<"[">> \o SerializeJSONArray(val.a, TRUE) \o <<"]">>)
      [] val.t = "obj" -> Str(<<"{">> \o SerializeJSONObject(val.o, TRUE) \o <<"}">>)
      [] OTHER -> Undefined

\* The elements of an array, comma separated; an undefined element is null
SerializeJSONArray(elems, first) ==
    IF elems = <<>> THEN <<>>
    ELSE LET strP == SerializeJSONProperty(Head(elems))
             item == IF strP.t = "undef" THEN <<"n", "u", "l", "l">> ELSE strP.s
         IN (IF first THEN <<>> ELSE <<",">>) \o item
               \o SerializeJSONArray(Tail(elems), FALSE)

\* The properties of an object, comma separated; a property whose value
\* is undefined is left out
SerializeJSONObject(props, first) ==
    IF props = <<>> THEN <<>>
    ELSE LET P == Head(props)
             strP == SerializeJSONProperty(P[2])
         IN IF strP.t = "undef"
            THEN SerializeJSONObject(Tail(props), first)
            ELSE (IF first THEN <<>> ELSE <<",">>)
                    \o QuoteJSONString(P[1]) \o <<":">> \o strP.s
                    \o SerializeJSONObject(Tail(props), FALSE)

\* JSON.stringify(value): a string value, or undefined
JSONstringify(value) == SerializeJSONProperty(value)

(***************************************************************************)
(* Deserialization of a text, as the receiver of the text performs it      *)
(***************************************************************************)
Fail == [ok |-> FALSE, val |-> Undefined, pos |-> 0]
Ok(val, pos) == [ok |-> TRUE, val |-> val, pos |-> pos]

IsDigit(c) == \E i \in 1..10 : Digits[i] = c
DigitValue(c) == (CHOOSE i \in 1..10 : Digits[i] = c) - 1

Matches(text, i, word) ==
    /\ i + Len(word) - 1 <= Len(text)
    /\ \A k \in 1..Len(word) : text[i + k - 1] = word[k]

RECURSIVE ParseDigits(_, _, _)
ParseDigits(text, i, acc) ==
    IF i <= Len(text) /\ IsDigit(text[i])
    THEN ParseDigits(text, i + 1, acc * 10 + DigitValue(text[i]))
    ELSE Ok(Num(acc), i)

RECURSIVE ParseChars(_, _, _)
\* The characters of a string literal, from the one after the opening quote
ParseChars(text, i, acc) ==
    IF i > Len(text) THEN Fail
    ELSE IF text[i] = DQ THEN Ok(Str(acc), i + 1)
    ELSE IF text[i] = BS
         THEN IF i + 1 > Len(text) THEN Fail
              ELSE IF text[i + 1] = DQ THEN ParseChars(text, i + 2, Append(acc, DQ))
              ELSE IF text[i + 1] = BS THEN ParseChars(text, i + 2, Append(acc, BS))
              ELSE IF text[i + 1] = "n" THEN ParseChars(text, i + 2, Append(acc, NL))
              ELSE Fail
    ELSE IF text[i] = NL THEN Fail
    ELSE ParseChars(text, i + 1, Append(acc, text[i]))

RECURSIVE ParseValue(_, _)
RECURSIVE ParseElements(_, _, _)
RECURSIVE ParseMembers(_, _, _)

ParseValue(text, i) ==
    IF i > Len(text) THEN Fail
    ELSE IF Matches(text, i, <<"n", "u", "l", "l">>) THEN Ok(Null, i + 4)
    ELSE IF Matches(text, i, <<"t", "r", "u", "e">>) THEN Ok(Bool(TRUE), i + 4)
    ELSE IF Matches(text, i, <<"f", "a", "l", "s", "e">>) THEN Ok(Bool(FALSE), i + 5)
    ELSE IF IsDigit(text[i]) THEN ParseDigits(text, i, 0)
    ELSE IF text[i] = DQ THEN ParseChars(text, i + 1, <<>>)
    ELSE IF text[i] = "["
         THEN IF Matches(text, i + 1, <<"]">>) THEN Ok(Arr(<<>>), i + 2)
              ELSE ParseElements(text, i + 1, <<>>)
    ELSE IF text[i] = "{"
         THEN IF Matches(text, i + 1, <<"}">>) THEN Ok(Obj(<<>>), i + 2)
              ELSE ParseMembers(text, i + 1, <<>>)
    ELSE Fail

ParseElements(text, i, acc) ==
    LET e == ParseValue(text, i)
    IN IF ~e.ok THEN Fail
       ELSE IF Matches(text, e.pos, <<",">>)
            THEN ParseElements(text, e.pos + 1, Append(acc, e.val))
       ELSE IF Matches(text, e.pos, <<"]">>)
            THEN Ok(Arr(Append(acc, e.val)), e.pos + 1)
       ELSE Fail

ParseMembers(text, i, acc) ==
    IF ~Matches(text, i, <<DQ>>) THEN Fail
    ELSE LET k == ParseChars(text, i + 1, <<>>)
         IN IF ~k.ok \/ ~Matches(text, k.pos, <<":">>) THEN Fail
            ELSE LET e == ParseValue(text, k.pos + 1)
                 IN IF ~e.ok THEN Fail
                    ELSE IF Matches(text, e.pos, <<",">>)
                         THEN ParseMembers(text, e.pos + 1,
                                           Append(acc, <<k.val.s, e.val>>))
                    ELSE IF Matches(text, e.pos, <<"}">>)
                         THEN Ok(Obj(Append(acc, <<k.val.s, e.val>>)), e.pos + 1)
                    ELSE Fail

\* JSON.parse(text): the value, or Undefined for a text that is not JSON
JSONparse(text) ==
    LET r == ParseValue(text, 1)
    IN IF r.ok /\ r.pos = Len(text) + 1 THEN r.val ELSE Undefined


(***************************************************************************)
(* Property names and string constants, as sequences of characters         *)
(***************************************************************************)
K_storagePath ==
    <<"s", "t", "o", "r", "a", "g", "e", "P", "a", "t", "h">>
K_clientOptions ==
    <<"c", "l", "i", "e", "n", "t", "O", "p", "t", "i", "o", "n", "s">>
K_secretManager ==
    <<"s", "e", "c", "r", "e", "t", "M", "a", "n", "a", "g", "e", "r">>
K_cmd ==
    <<"c", "m", "d">>
K_payload ==
    <<"p", "a", "y", "l", "o", "a", "d">>
K_accountId ==
    <<"a", "c", "c", "o", "u", "n", "t", "I", "d">>
K_method ==
    <<"m", "e", "t", "h", "o", "d">>
S_CallAccountMethod ==
    <<"C", "a", "l", "l", "A", "c", "c", "o", "u", "n", "t", "M", "e", "t", "h", "o", "d">>
K_name ==
    <<"n", "a", "m", "e">>
K_data ==
    <<"d", "a", "t", "a">>
K_alias ==
    <<"a", "l", "i", "a", "s">>
K_nodes ==
    <<"n", "o", "d", "e", "s">>
K_mnemonic ==
    <<"m", "n", "e", "m", "o", "n", "i", "c">>
K_type ==
    <<"t", "y", "p", "e">>
K_force ==
    <<"f", "o", "r", "c", "e">>
K_ids ==
    <<"i", "d", "s">>
K_note ==
    <<"n", "o", "t", "e">>
S_GetAccounts ==
    <<"G", "e", "t", "A", "c", "c", "o", "u", "n", "t", "s">>
S_CreateAccount ==
    <<"C", "r", "e", "a", "t", "e", "A", "c", "c", "o", "u", "n", "t">>
S_GetAccount ==
    <<"G", "e", "t", "A", "c", "c", "o", "u", "n", "t">>
S_Sync ==
    <<"S", "t", "a", "r", "t", "B", "a", "c", "k", "g", "r", "o", "u", "n", "d", "S", "y", "n", "c">>
S_sync ==
    <<"s", "y", "n", "c">>
S_getOutput ==
    <<"g", "e", "t", "O", "u", "t", "p", "u", "t">>
S_path ==
    <<".", "/", "d", "b">>
S_node ==
    <<"h", "t", "t", "p", ":", "/", "/", "n">>
S_words ==
    <<"a", " ", DQ, "b", DQ, BS, "c", NL, "d">>
S_alice ==
    <<"a", "l", DQ, "i", "c", "e">>
S_r1 ==
    <<"{", DQ, "t", "y", "p", "e", DQ, ":", DQ, "o", "k", DQ, "}">>
S_r2 ==
    <<"{", DQ, "t", "y", "p", "e", DQ, ":", DQ, "e", "r", "r", "o", "r", DQ, "}">>
S_e1 ==
    <<"e", "1">>
S_e2 ==
    <<"e", "2">>

(***************************************************************************)
(* Bounds                                                                  *)
(***************************************************************************)
MaxAdapters == 2
MaxSends == 2
MaxListens == 2
MaxEvents == 2
MaxOps == 2

AdapterIds == 1..MaxAdapters
SendIds == 1..MaxSends
ListenIds == 1..MaxListens

(***************************************************************************)
(* Inputs                                                                  *)
(***************************************************************************)
\* obj[key]: the value of the property, undefined when there is none
RECURSIVE GetProps(_, _)
GetProps(props, key) ==
    IF props = <<>> THEN Undefined
    ELSE IF Head(props)[1] = key THEN Head(props)[2]
    ELSE GetProps(Tail(props), key)

Get(obj, key) == GetProps(obj.o, key)

\* AccountManagerOptions given to the constructor
OptionsFull ==
    Obj(<< <<K_storagePath, Str(S_path)>>,
           <<K_clientOptions, Obj(<< <<K_nodes, Arr(<<Str(S_node)>>)>> >>)>>,
           <<K_secretManager, Obj(<< <<K_mnemonic, Str(S_words)>> >>)>> >>)

OptionsPathOnly ==
    Obj(<< <<K_storagePath, Str(S_path)>> >>)

OptionsSet == {OptionsFull, OptionsPathOnly}

\* __SendMessagePayload__ values given to sendMessage
MsgGetAccounts ==
    Obj(<< <<K_cmd, Str(S_GetAccounts)>> >>)

MsgGetAccount ==
    Obj(<< <<K_cmd, Str(S_GetAccount)>>, <<K_payload, Str(S_alice)>> >>)

MsgCreateAccount ==
    Obj(<< <<K_cmd, Str(S_CreateAccount)>>,
           <<K_payload, Obj(<< <<K_alias, Undefined>> >>)>> >>)

MsgSync ==
    Obj(<< <<K_cmd, Str(S_Sync)>>,
           <<K_payload, Obj(<< <<K_ids, Arr(<<Num(0), Num(12)>>)>>,
                               <<K_force, Bool(TRUE)>>,
                               <<K_note, Null>> >>)>> >>)

Messages == {MsgGetAccounts, MsgGetAccount, MsgCreateAccount, MsgSync}

\* AccountId values and __AccountPayloadMethods__ values given to callAccountMethod
AccountIds == {Num(7), Str(S_alice)}

MethodSync ==
    Obj(<< <<K_name, Str(S_sync)>> >>)

MethodGetOutput ==
    Obj(<< <<K_name, Str(S_getOutput)>>,
           <<K_data, Obj(<< <<K_ids, Arr(<<Num(3)>>)>>,
                            <<K_note, Undefined>> >>)>> >>)

Methods == {MethodSync, MethodGetOutput}

\* EventType lists and callbacks given to listen
E1 == <<"E", "1">>
E2 == <<"E", "2">>
E3 == <<"E", "3">>
EventTypes == {E1, E2, E3}
EventTypeLists == {<<E1, E2>>, <<E3>>}
Callbacks == {"cb1", "cb2"}

(***************************************************************************)
(* The native bindings, as the adapter sees them                           *)
(***************************************************************************)
NoHandle == 0
NoError == [t |-> "noerror"]
Error(s) == [t |-> "error", s |-> s]
NativeErrors == {Error(S_e1), Error(S_e2)}
NativeResults == {Str(S_r1), Str(S_r2)}

VARIABLES
    adapters,       \* per instance: whether it exists, and its messageHandler field
    options,        \* per instance: the options object its constructor was given, as it is now
    optionsGiven,   \* per instance: that object as it was when the constructor was called
    newCalls,       \* the calls of messageHandlerNew, in order
    sends,          \* the invocations of sendMessage and the promise each returned
    sendCalls,      \* the calls of sendMessageAsync and the promise each returned
    accountCalls,   \* the invocations of callAccountMethod
    listens,        \* the invocations of the listen method
    listenCalls,    \* the calls of the native listen
    events,         \* the events the native engine raised
    invocations     \* the invocations of listener callbacks

vars == <<adapters, options, optionsGiven, newCalls, sends, sendCalls,
          accountCalls, listens, listenCalls, events, invocations>>

NoAdapter == [status |-> "none", messageHandler |-> NoHandle, error |-> NoError]

Init ==
    /\ adapters = [a \in AdapterIds |-> NoAdapter]
    /\ options = [a \in AdapterIds |-> Undefined]
    /\ optionsGiven = [a \in AdapterIds |-> Undefined]
    /\ newCalls = <<>>
    /\ sends = <<>>
    /\ sendCalls = <<>>
    /\ accountCalls = <<>>
    /\ listens = <<>>
    /\ listenCalls = <<>>
    /\ events = <<>>
    /\ invocations = <<>>

(***************************************************************************)
(* constructor                                                             *)
(***************************************************************************)
\* The handles messageHandlerNew has returned so far
Handles == {newCalls[i].result : i \in {j \in DOMAIN newCalls : newCalls[j].ok}}

\* What a call of messageHandlerNew can do: return a handle that no earlier
\* call returned, or throw one of the errors
MessageHandlerNewOutcomes(errors) ==
    {[ok |-> TRUE, result |-> Cardinality(Handles) + 1, error |-> NoError]}
        \cup {[ok |-> FALSE, result |-> NoHandle, error |-> e] : e \in errors}

\* The object literal the constructor builds from the options
MessageOptions(opts) ==
    Obj(<< <<K_storagePath, Get(opts, K_storagePath)>>,
           <<K_clientOptions, JSONstringify(Get(opts, K_clientOptions))>>,
           <<K_secretManager, JSONstringify(Get(opts, K_secretManager))>> >>)

\* Variant: the constructor serializes the two fields into the options object
constructorInPlace(a, opts, r) ==
    /\ a = Len(newCalls) + 1
    /\ adapters[a].status = "none"
    /\ newCalls' = Append(newCalls, [adapter |-> a,
                                     options |-> JSONstringify(MessageOptions(opts)),
                                     ok |-> r.ok, result |-> r.result,
                                     error |-> r.error])
    /\ adapters' = [adapters EXCEPT ![a] =
                      IF r.ok
                      THEN [status |-> "constructed", messageHandler |-> r.result,
                            error |-> NoError]
                      ELSE [status |-> "failed", messageHandler |-> NoHandle,
                            error |-> r.error]]
    /\ options' = [options EXCEPT ![a] = MessageOptions(opts)]
    /\ optionsGiven' = [optionsGiven EXCEPT ![a] = opts]

\* Variant: the constructor catches the failure of messageHandlerNew
constructorCatch(a, opts, r) ==
    /\ a = Len(newCalls) + 1
    /\ adapters[a].status = "none"
    /\ newCalls' = Append(newCalls, [adapter |-> a,
                                     options |-> JSONstringify(MessageOptions(opts)),
                                     ok |-> r.ok, result |-> r.result,
                                     error |-> r.error])
    /\ adapters' = [adapters EXCEPT ![a] =
                      [status |-> "constructed", messageHandler |-> r.result,
                       error |-> NoError]]
    /\ options' = [options EXCEPT ![a] = opts]
    /\ optionsGiven' = [optionsGiven EXCEPT ![a] = opts]

\* new MessageHandler(opts), r being what messageHandlerNew does: when it
\* throws, the constructor throws and the new expression yields no instance
constructor(a, opts, r) ==
    /\ a = Len(newCalls) + 1
    /\ adapters[a].status = "none"
    /\ newCalls' = Append(newCalls, [adapter |-> a,
                                     options |-> JSONstringify(MessageOptions(opts)),
                                     ok |-> r.ok, result |-> r.result,
                                     error |-> r.error])
    /\ adapters' = [adapters EXCEPT ![a] =
                      IF r.ok
                      THEN [status |-> "constructed", messageHandler |-> r.result,
                            error |-> NoError]
                      ELSE [status |-> "failed", messageHandler |-> NoHandle,
                            error |-> r.error]]
    /\ options' = [options EXCEPT ![a] = opts]
    /\ optionsGiven' = [optionsGiven EXCEPT ![a] = opts]

Construct(a, opts, r) ==
    /\ constructor(a, opts, r)
    /\ UNCHANGED <<sends, sendCalls, accountCalls, listens, listenCalls,
                   events, invocations>>

(***************************************************************************)
(* sendMessage, callAccountMethod                                          *)
(***************************************************************************)
\* Variant: the handle is kept in one place shared by all instances
ThisMessageHandlerShared(a) ==
    IF Handles = {} THEN NoHandle
    ELSE CHOOSE h \in Handles : \A g \in Handles : g <= h

\* this.messageHandler
ThisMessageHandler(a) == adapters[a].messageHandler

\* Variant: sendMessage serializes the payload of the message only
sendMessagePayload(a, message) ==
    /\ adapters[a].status = "constructed"
    /\ Len(sends) < MaxSends
    /\ sendCalls' = Append(sendCalls, [send |-> Len(sends) + 1,
                                       message |-> JSONstringify(Get(message, K_payload)),
                                       handler |-> ThisMessageHandler(a),
                                       state |-> "pending", value |-> Undefined])
    /\ sends' = Append(sends, [adapter |-> a, message |-> message,
                               returned |-> Len(sendCalls) + 1,
                               state |-> "pending", value |-> Undefined])

\* sendMessage(message) on instance a: one call of sendMessageAsync, whose
\* promise the async function returns
sendMessage(a, message) ==
    /\ adapters[a].status = "constructed"
    /\ Len(sends) < MaxSends
    /\ sendCalls' = Append(sendCalls, [send |-> Len(sends) + 1,
                                       message |-> JSONstringify(message),
                                       handler |-> ThisMessageHandler(a),
                                       state |-> "pending", value |-> Undefined])
    /\ sends' = Append(sends, [adapter |-> a, message |-> message,
                               returned |-> Len(sendCalls) + 1,
                               state |-> "pending", value |-> Undefined])

\* Variant: the method is put beside the payload and not in it
AccountMethodMessageBeside(accountIndex, method) ==
    Obj(<< <<K_cmd, Str(S_CallAccountMethod)>>,
           <<K_payload, Obj(<< <<K_accountId, accountIndex>> >>)>>,
           <<K_method, method>> >>)

\* The object literal callAccountMethod builds
AccountMethodMessage(accountIndex, method) ==
    Obj(<< <<K_cmd, Str(S_CallAccountMethod)>>,
           <<K_payload, Obj(<< <<K_accountId, accountIndex>>,
                               <<K_method, method>> >>)>> >>)

callAccountMethod(a, accountIndex, method) ==
    /\ sendMessage(a, AccountMethodMessage(accountIndex, method))
    /\ accountCalls' = Append(accountCalls, [send |-> Len(sends) + 1,
                                             accountIndex |-> accountIndex,
                                             method |-> method])

SendMessage(a, message) ==
    /\ sendMessage(a, message)
    /\ UNCHANGED <<adapters, options, optionsGiven, newCalls, accountCalls,
                   listens, listenCalls, events, invocations>>

CallAccountMethod(a, accountIndex, method) ==
    /\ callAccountMethod(a, accountIndex, method)
    /\ UNCHANGED <<adapters, options, optionsGiven, newCalls,
                   listens, listenCalls, events, invocations>>

\* The native engine completes a call of sendMessageAsync with a text
NativeResolve(c, result) ==
    /\ c \in DOMAIN sendCalls
    /\ sendCalls[c].state = "pending"
    /\ sendCalls' = [sendCalls EXCEPT ![c].state = "fulfilled", ![c].value = result]
    /\ UNCHANGED <<adapters, options, optionsGiven, newCalls, sends, accountCalls,
                   listens, listenCalls, events, invocations>>

\* The native engine fails a call of sendMessageAsync
NativeReject(c, error) ==
    /\ c \in DOMAIN sendCalls
    /\ sendCalls[c].state = "pending"
    /\ sendCalls' = [sendCalls EXCEPT ![c].state = "rejected", ![c].value = error]
    /\ UNCHANGED <<adapters, options, optionsGiven, newCalls, sends, accountCalls,
                   listens, listenCalls, events, invocations>>

\* Variant: a failure is caught and the promise fulfilled with nothing
SettleSwallow(s) ==
    /\ s \in DOMAIN sends
    /\ sends[s].state = "pending"
    /\ sendCalls[sends[s].returned].state # "pending"
    /\ sends' = [sends EXCEPT
                   ![s].state = "fulfilled",
                   ![s].value = IF sendCalls[sends[s].returned].state = "fulfilled"
                                THEN sendCalls[sends[s].returned].value
                                ELSE Undefined]
    /\ UNCHANGED <<adapters, options, optionsGiven, newCalls, sendCalls,
                   accountCalls, listens, listenCalls, events, invocations>>

\* Variant: the promise takes the outcome of whichever native call has one
SettleAny(s) ==
    /\ s \in DOMAIN sends
    /\ sends[s].state = "pending"
    /\ \E c \in DOMAIN sendCalls :
          /\ sendCalls[c].state # "pending"
          /\ sends' = [sends EXCEPT ![s].state = sendCalls[c].state,
                                    ![s].value = sendCalls[c].value]
    /\ UNCHANGED <<adapters, options, optionsGiven, newCalls, sendCalls,
                   accountCalls, listens, listenCalls, events, invocations>>

\* Variant: a failed native call is made once more before the failure is passed on
SettleRetry(s) ==
    /\ s \in DOMAIN sends
    /\ sends[s].state = "pending"
    /\ sendCalls[sends[s].returned].state # "pending"
    /\ IF sendCalls[sends[s].returned].state = "rejected" /\ sends[s].returned = s
       THEN /\ sendCalls' = Append(sendCalls,
                                   [sendCalls[sends[s].returned] EXCEPT
                                      !.state = "pending", !.value = Undefined])
            /\ sends' = [sends EXCEPT ![s].returned = Len(sendCalls) + 1]
       ELSE /\ sends' = [sends EXCEPT ![s].state = sendCalls[sends[s].returned].state,
                                      ![s].value = sendCalls[sends[s].returned].value]
            /\ UNCHANGED sendCalls
    /\ UNCHANGED <<adapters, options, optionsGiven, newCalls,
                   accountCalls, listens, listenCalls, events, invocations>>

\* The promise sendMessage returned is resolved with the promise of its
\* native call, and takes that promise's outcome once it has one
Settle(s) ==
    /\ s \in DOMAIN sends
    /\ sends[s].state = "pending"
    /\ sendCalls[sends[s].returned].state # "pending"
    /\ sends' = [sends EXCEPT ![s].state = sendCalls[sends[s].returned].state,
                              ![s].value = sendCalls[sends[s].returned].value]
    /\ UNCHANGED <<adapters, options, optionsGiven, newCalls, sendCalls,
                   accountCalls, listens, listenCalls, events, invocations>>

(***************************************************************************)
(* listen                                                                  *)
(***************************************************************************)
\* Variant: the callback is registered twice
listenTwice(a, eventTypes, callback) ==
    /\ adapters[a].status = "constructed"
    /\ Len(listens) < MaxListens
    /\ listenCalls' = listenCalls \o
                        << [listen |-> Len(listens) + 1, eventTypes |-> eventTypes,
                            callback |-> callback, handler |-> ThisMessageHandler(a)],
                           [listen |-> Len(listens) + 1, eventTypes |-> eventTypes,
                            callback |-> callback, handler |-> ThisMessageHandler(a)] >>
    /\ listens' = Append(listens, [adapter |-> a, eventTypes |-> eventTypes,
                                   callback |-> callback])

\* Variant: the handle is not passed to the native listen
listenNoHandle(a, eventTypes, callback) ==
    /\ adapters[a].status = "constructed"
    /\ Len(listens) < MaxListens
    /\ listenCalls' = Append(listenCalls, [listen |-> Len(listens) + 1,
                                           eventTypes |-> eventTypes,
                                           callback |-> callback,
                                           handler |-> NoHandle])
    /\ listens' = Append(listens, [adapter |-> a, eventTypes |-> eventTypes,
                                   callback |-> callback])

\* listen(eventTypes, callback) on instance a: one call of the native listen
listen(a, eventTypes, callback) ==
    /\ adapters[a].status = "constructed"
    /\ Len(listens) < MaxListens
    /\ listenCalls' = Append(listenCalls, [listen |-> Len(listens) + 1,
                                           eventTypes |-> eventTypes,
                                           callback |-> callback,
                                           handler |-> ThisMessageHandler(a)])
    /\ listens' = Append(listens, [adapter |-> a, eventTypes |-> eventTypes,
                                   callback |-> callback])

Listen(a, eventTypes, callback) ==
    /\ listen(a, eventTypes, callback)
    /\ UNCHANGED <<adapters, options, optionsGiven, newCalls, sends, sendCalls,
                   accountCalls, events, invocations>>

InList(x, list) == \E i \in DOMAIN list : list[i] = x

\* The serialized event the callbacks receive
EventResult(type) == JSONstringify(Obj(<< <<K_type, Str(type)>> >>))

RECURSIVE Notify(_, _, _, _)
\* The invocations one occurrence causes: one for each registration, from
\* the k-th on, made on the handle for the type (for any type, on a failure)
Notify(k, e, ev, error) ==
    IF k > Len(listenCalls) THEN <<>>
    ELSE (IF /\ listenCalls[k].handler = ev.handler
             /\ (ev.kind = "failure" \/ InList(ev.type, listenCalls[k].eventTypes))
          THEN << [call |-> k, event |-> e, callback |-> listenCalls[k].callback,
                   error |-> error,
                   result |-> IF ev.kind = "failure" THEN Undefined
                              ELSE EventResult(ev.type)] >>
          ELSE <<>>) \o Notify(k + 1, e, ev, error)

\* The native engine raises an event of a type on a handle
NativeEvent(h, type) ==
    /\ Len(events) < MaxEvents
    /\ h \in Handles
    /\ LET ev == [kind |-> "event", handler |-> h, type |-> type,
                  registered |-> Len(listens)]
       IN /\ events' = Append(events, ev)
          /\ invocations' = invocations \o Notify(1, Len(events) + 1, ev, NoError)
    /\ UNCHANGED <<adapters, options, optionsGiven, newCalls, sends, sendCalls,
                   accountCalls, listens, listenCalls>>

\* The native engine reports a failure to the listeners of a handle
NativeFailure(h, error) ==
    /\ Len(events) < MaxEvents
    /\ h \in Handles
    /\ LET ev == [kind |-> "failure", handler |-> h, type |-> <<>>,
                  registered |-> Len(listens)]
       IN /\ events' = Append(events, ev)
          /\ invocations' = invocations \o Notify(1, Len(events) + 1, ev, error)
    /\ UNCHANGED <<adapters, options, optionsGiven, newCalls, sends, sendCalls,
                   accountCalls, listens, listenCalls>>

(***************************************************************************)
(* Specifications                                                          *)
(***************************************************************************)
\* The sends, listener registrations and native occurrences so far
Ops == Len(sends) + Len(listens) + Len(events)

\* Every operation of every instance, interleaved with the native engine
Next ==
    \/ \E a \in AdapterIds, opts \in OptionsSet,
          r \in MessageHandlerNewOutcomes({Error(S_e2)}) : Construct(a, opts, r)
    \/ \E a \in AdapterIds : Ops < MaxOps /\ SendMessage(a, MsgGetAccount)
    \/ \E a \in AdapterIds :
          Ops < MaxOps /\ CallAccountMethod(a, Num(7), MethodSync)
    \/ \E c \in DOMAIN sendCalls : NativeResolve(c, Str(S_r1))
    \/ \E c \in DOMAIN sendCalls : NativeReject(c, Error(S_e1))
    \/ \E s \in SendIds : Settle(s)
    \/ \E a \in AdapterIds : Ops < MaxOps /\ Listen(a, <<E1, E2>>, "cb1")
    \/ \E h \in AdapterIds : Ops < MaxOps /\ NativeEvent(h, E1)

Spec == Init /\ [][Next]_vars

\* Concurrent sends of one instance and their outcomes
NextSend ==
    \/ \E r \in MessageHandlerNewOutcomes({}) : Construct(1, OptionsFull, r)
    \/ SendMessage(1, MsgSync)
    \/ CallAccountMethod(1, Num(7), MethodSync)
    \/ \E c \in DOMAIN sendCalls, result \in NativeResults : NativeResolve(c, result)
    \/ \E c \in DOMAIN sendCalls, error \in NativeErrors : NativeReject(c, error)
    \/ \E s \in SendIds : Settle(s)

SpecSend == Init /\ [][NextSend]_vars

\* The job queue runs every promise reaction, so a settled native promise
\* settles the promise that was resolved with it
FairSpecSend == SpecSend /\ \A s \in SendIds : WF_vars(Settle(s))

\* Every message and every account method call of one instance, as marshalled
NextMarshal ==
    \/ \E r \in MessageHandlerNewOutcomes({}) : Construct(1, OptionsPathOnly, r)
    \/ \E message \in Messages : SendMessage(1, message)
    \/ \E accountIndex \in AccountIds, method \in Methods :
          CallAccountMethod(1, accountIndex, method)
    \/ \E c \in DOMAIN sendCalls : NativeResolve(c, Str(S_r2))
    \/ \E s \in SendIds : Settle(s)

SpecMarshal == Init /\ [][NextMarshal]_vars

\* Listener registrations of one instance and native occurrences
NextListen ==
    \/ \E r \in MessageHandlerNewOutcomes({}) : Construct(1, OptionsPathOnly, r)
    \/ \E eventTypes \in EventTypeLists, callback \in Callbacks :
          Listen(1, eventTypes, callback)
    \/ \E type \in EventTypes : NativeEvent(1, type)
    \/ NativeFailure(1, Error(S_e2))

SpecListen == Init /\ [][NextListen]_vars

(***************************************************************************)
(* Properties                                                              *)
(***************************************************************************)
\* The native calls made for the send s
CallsOf(s) == {c \in DOMAIN sendCalls : sendCalls[c].send = s}

\* The sends that callAccountMethod made
AccountSends == {accountCalls[k].send : k \in DOMAIN accountCalls}

\* The property names of an object, in order
Keys(obj) == [i \in DOMAIN obj.o |-> obj.o[i][1]]

\* The handle messageHandlerNew returned to the constructor of instance a
HandleGiven(a) ==
    LET i == CHOOSE j \in DOMAIN newCalls : newCalls[j].adapter = a
    IN newCalls[i].result

Constructed == {a \in AdapterIds : adapters[a].status = "constructed"}

SendFailed(s) ==
    /\ s \in DOMAIN sends
    /\ \E c \in CallsOf(s) : sendCalls[c].state = "rejected"

SendRejectedWith(s) ==
    /\ s \in DOMAIN sends
    /\ sends[s].state = "rejected"
    /\ \A c \in CallsOf(s) : sendCalls[c].state = "rejected"
                                => sends[s].value = sendCalls[c].value

\* C1: when the native call of a sendMessage (made directly or by
\* callAccountMethod) fails, the promise returned to the caller is never
\* fulfilled, and it ends rejected with the failure of the native call.
C1_FailureRejects ==
    /\ [](\A s \in DOMAIN sends :
            SendFailed(s) => /\ sends[s].state # "fulfilled"
                             /\ sends[s].state = "rejected" => SendRejectedWith(s))
    /\ \A s \in SendIds : SendFailed(s) ~> SendRejectedWith(s)

C1_Witness ==
    \E s \in DOMAIN sends, u \in DOMAIN sends :
        /\ s \in AccountSends /\ SendFailed(s) /\ SendRejectedWith(s)
        /\ u \notin AccountSends /\ SendFailed(u) /\ SendRejectedWith(u)

RECURSIVE Represented(_)
RECURSIVE RepresentedElements(_)
RECURSIVE RepresentedProperties(_)
\* The value as JSON represents it: a property whose value is undefined is
\* left out, an undefined element of an array is null
Represented(val) ==
    CASE val.t = "arr" -> Arr(RepresentedElements(val.a))
      [] val.t = "obj" -> Obj(RepresentedProperties(val.o))
      [] OTHER -> val

RepresentedElements(elems) ==
    IF elems = <<>> THEN <<>>
    ELSE << IF Head(elems).t = "undef" THEN Null ELSE Represented(Head(elems)) >>
            \o RepresentedElements(Tail(elems))

RepresentedProperties(props) ==
    IF props = <<>> THEN <<>>
    ELSE (IF Head(props)[2].t = "undef" THEN <<>>
          ELSE << <<Head(props)[1], Represented(Head(props)[2])>> >>)
            \o RepresentedProperties(Tail(props))

\* C2: callAccountMethod(A, M) sends the message whose properties are cmd,
\* equal to 'CallAccountMethod', and payload, whose properties are accountId,
\* equal to A, and method, equal to M, and no other; the text forwarded to
\* the native call is the serialization of that message, and reads back as
\* the same command and the same two properties, as JSON represents them.
C2_AccountMethodEnvelope ==
    \A k \in DOMAIN accountCalls :
        LET s == accountCalls[k].send
            envelope == sends[s].message
            payload == Get(envelope, K_payload)
        IN /\ Keys(envelope) = <<K_cmd, K_payload>>
           /\ Get(envelope, K_cmd) = Str(S_CallAccountMethod)
           /\ payload.t = "obj"
           /\ Keys(payload) = <<K_accountId, K_method>>
           /\ Get(payload, K_accountId) = accountCalls[k].accountIndex
           /\ Get(payload, K_method) = accountCalls[k].method
           /\ Cardinality(CallsOf(s)) = 1
           /\ \A c \in CallsOf(s) :
                 /\ sendCalls[c].message = JSONstringify(envelope)
                 /\ sendCalls[c].message.t = "str"
                 /\ LET read == JSONparse(sendCalls[c].message.s)
                    IN /\ read.t = "obj"
                       /\ Keys(read) = <<K_cmd, K_payload>>
                       /\ Get(read, K_cmd) = Str(S_CallAccountMethod)
                       /\ Get(read, K_payload).t = "obj"
                       /\ Keys(Get(read, K_payload)) = <<K_accountId, K_method>>
                       /\ Get(Get(read, K_payload), K_accountId)
                              = accountCalls[k].accountIndex
                       /\ Get(Get(read, K_payload), K_method)
                              = Represented(accountCalls[k].method)

C2_Witness ==
    \E k \in DOMAIN accountCalls :
        /\ accountCalls[k].accountIndex = Str(S_alice)
        /\ accountCalls[k].method = MethodGetOutput
        /\ CallsOf(accountCalls[k].send) # {}

\* C3 as stated: the text handed to the native call is the serialization of
\* the message, and deserializing the text yields the message.
C3_RoundTripExact ==
    \A c \in DOMAIN sendCalls :
        /\ sendCalls[c].message = JSONstringify(sends[sendCalls[c].send].message)
        /\ sendCalls[c].message.t = "str"
        /\ JSONparse(sendCalls[c].message.s) = sends[sendCalls[c].send].message

\* C3, amended: the text handed to the native call is the serialization of
\* the message, and deserializing the text yields the message less its
\* properties whose value is undefined, which is the message itself when it
\* has no such property.
C3_RoundTripRepresented ==
    \A c \in DOMAIN sendCalls :
        LET message == sends[sendCalls[c].send].message
        IN /\ sendCalls[c].message = JSONstringify(message)
           /\ sendCalls[c].message.t = "str"
           /\ JSONparse(sendCalls[c].message.s) = Represented(message)
           /\ Represented(message) = message
                 => JSONparse(sendCalls[c].message.s) = message

C3_Witness ==
    /\ \E c \in DOMAIN sendCalls :
          /\ sends[sendCalls[c].send].message = MsgCreateAccount
          /\ sendCalls[c].message.t = "str"
          /\ JSONparse(sendCalls[c].message.s) # MsgCreateAccount
    /\ \E c \in DOMAIN sendCalls :
          /\ sends[sendCalls[c].send].message = MsgGetAccount
          /\ sendCalls[c].message.t = "str"
          /\ JSONparse(sendCalls[c].message.s) = MsgGetAccount

\* C4: a promise returned by sendMessage is fulfilled only when its own
\* native call was, and then with the text of that call.
C4_FulfilledWithOwnResult ==
    \A s \in DOMAIN sends :
        sends[s].state = "fulfilled"
            => /\ CallsOf(s) # {}
               /\ \A c \in CallsOf(s) : /\ sendCalls[c].state = "fulfilled"
                                        /\ sends[s].value = sendCalls[c].value

C4_Witness ==
    \E s \in DOMAIN sends, u \in DOMAIN sends :
        /\ sends[s].state = "fulfilled" /\ sends[u].state = "fulfilled"
        /\ sends[s].value = Str(S_r1) /\ sends[u].value = Str(S_r2)

\* The invocations that the listen l received for the occurrence e
InvocationsOf(l, e) ==
    {i \in DOMAIN invocations :
        invocations[i].event = e /\ listenCalls[invocations[i].call].listen = l}

\* C5: for a listen made on an instance before a native event on the handle
\* of that instance, of a type in the list of the listen, the callback of
\* the listen is invoked exactly once for the event, with the serialized
\* event and no error.
C5_ListenerInvokedOnce ==
    \A l \in DOMAIN listens, e \in DOMAIN events :
        (/\ events[e].kind = "event"
         /\ l <= events[e].registered
         /\ events[e].handler = adapters[listens[l].adapter].messageHandler
         /\ InList(events[e].type, listens[l].eventTypes))
        => /\ Cardinality(InvocationsOf(l, e)) = 1
           /\ \A i \in InvocationsOf(l, e) :
                 /\ invocations[i].callback = listens[l].callback
                 /\ invocations[i].error = NoError
                 /\ invocations[i].result = EventResult(events[e].type)

C5_Witness ==
    \E l \in DOMAIN listens, e \in DOMAIN events :
        /\ listens[l].eventTypes = <<E1, E2>>
        /\ events[e].kind = "event" /\ events[e].type = E1
        /\ l <= events[e].registered
        /\ events[e].handler = adapters[listens[l].adapter].messageHandler
        /\ InvocationsOf(l, e) # {}

\* C6: the construction of an instance calls messageHandlerNew once, the
\* instance holds the one handle that call returned, and the options object
\* is as it was given.
C6_ConstructOnce ==
    \A a \in AdapterIds :
        adapters[a].status # "none"
            => /\ Cardinality({i \in DOMAIN newCalls : newCalls[i].adapter = a}) = 1
               /\ options[a] = optionsGiven[a]
               /\ adapters[a].status = "constructed"
                    => /\ adapters[a].messageHandler = HandleGiven(a)
                       /\ adapters[a].messageHandler \in Handles

C6_Witness ==
    \E a \in AdapterIds :
        /\ adapters[a].status = "constructed"
        /\ optionsGiven[a] = OptionsFull
        /\ \E i \in DOMAIN newCalls : newCalls[i].adapter = a /\ newCalls[i].ok

\* C7: when messageHandlerNew fails, the construction fails with its error,
\* there is no instance and no handle, and no send or listen is made for it.
C7_FailedConstruction ==
    \A i \in DOMAIN newCalls :
        ~newCalls[i].ok
            => LET a == newCalls[i].adapter
               IN /\ adapters[a].status = "failed"
                  /\ adapters[a].error = newCalls[i].error
                  /\ adapters[a].messageHandler = NoHandle
                  /\ \A s \in DOMAIN sends : sends[s].adapter # a
                  /\ \A l \in DOMAIN listens : listens[l].adapter # a
                  /\ \A c \in DOMAIN sendCalls : sendCalls[c].handler # NoHandle
                  /\ \A c \in DOMAIN listenCalls : listenCalls[c].handler # NoHandle

C7_Witness ==
    /\ \E i \in DOMAIN newCalls : ~newCalls[i].ok /\ newCalls[i].error = Error(S_e2)
    /\ sends # <<>>
    /\ listens # <<>>

\* C8: an instance holds the handle its construction obtained, whatever
\* sends and listens were made, and each native call made for the instance
\* was passed that handle.
C8_HandleKept ==
    /\ \A a \in Constructed : adapters[a].messageHandler = HandleGiven(a)
    /\ \A c \in DOMAIN sendCalls :
          sendCalls[c].handler = HandleGiven(sends[sendCalls[c].send].adapter)
    /\ \A c \in DOMAIN listenCalls :
          listenCalls[c].handler = HandleGiven(listens[listenCalls[c].listen].adapter)

C8_Witness ==
    \E a \in Constructed :
        /\ a > 1
        /\ \E s \in DOMAIN sends : sends[s].adapter = a /\ sends[s].state # "pending"
        /\ \E l \in DOMAIN listens : listens[l].adapter = a

\* The instances that the step operates on
Acting ==
    {newCalls'[i].adapter : i \in DOMAIN newCalls' \ DOMAIN newCalls}
        \cup {sends'[i].adapter : i \in DOMAIN sends' \ DOMAIN sends}
        \cup {listens'[i].adapter : i \in DOMAIN listens' \ DOMAIN listens}

\* C9: instances hold different handles, each native call made for an
\* instance carries the handle of that instance and of no other, and an
\* operation on an instance leaves the other instances, their options and
\* the calls made for them as they were.
C9_InstancesApart ==
    /\ [](/\ \A a \in Constructed, b \in Constructed :
                a # b => adapters[a].messageHandler # adapters[b].messageHandler
          /\ \A c \in DOMAIN sendCalls, b \in Constructed :
                sendCalls[c].handler = adapters[b].messageHandler
                    <=> sends[sendCalls[c].send].adapter = b
          /\ \A c \in DOMAIN listenCalls, b \in Constructed :
                listenCalls[c].handler = adapters[b].messageHandler
                    <=> listens[listenCalls[c].listen].adapter = b)
    /\ [][\A b \in AdapterIds :
             (Acting # {} /\ b \notin Acting)
                => /\ adapters'[b] = adapters[b]
                   /\ options'[b] = options[b]
                   /\ \A s \in DOMAIN sends :
                         sends[s].adapter = b => sends'[s] = sends[s]
                   /\ \A c \in DOMAIN sendCalls :
                         sends[sendCalls[c].send].adapter = b
                            => sendCalls'[c] = sendCalls[c]
                   /\ \A l \in DOMAIN listens :
                         listens[l].adapter = b
                            => listens'[l] = listens[l] /\ listenCalls'[l] = listenCalls[l]
                   /\ \A s \in DOMAIN sends' \ DOMAIN sends : sends'[s].adapter # b
                   /\ \A c \in DOMAIN sendCalls' \ DOMAIN sendCalls :
                         sendCalls'[c].handler # adapters[b].messageHandler
                   /\ \A c \in DOMAIN listenCalls' \ DOMAIN listenCalls :
                         listenCalls'[c].handler # adapters[b].messageHandler]_vars

C9_Witness ==
    \E a \in Constructed, b \in Constructed :
        /\ a < b
        /\ \E s \in DOMAIN sends, l \in DOMAIN listens :
              sends[s].adapter = b /\ listens[l].adapter = a

\* C10: every sendMessage has made exactly one native call, whether that
\* call is pending, succeeded or failed, so there are as many native calls
\* as sends.
C10_OneCallPerSend ==
    /\ Len(sendCalls) = Len(sends)
    /\ \A s \in DOMAIN sends : Cardinality(CallsOf(s)) = 1

C10_Witness ==
    \E s \in DOMAIN sends, u \in DOMAIN sends :
        /\ sends[s].state = "rejected" /\ sends[u].state = "fulfilled"
        /\ Cardinality(CallsOf(s)) = 1

====
